---- MODULE Spec2Model ----
(***************************************************************************)
(* Model of vsdeband.filters.guided_filter (src/vsdeband/filters.py).      *)
(*                                                                         *)
(* Two levels are modelled.                                                *)
(*  - The call level (Spec): one invocation of guided_filter as the        *)
(*    sequence of statements of the function body.  Clips are records of   *)
(*    width, height and per-plane content; the content of a plane is the   *)
(*    term that produced it, so that the plane a filter copies through     *)
(*    unprocessed can be traced to the clip it comes from.                 *)
(*  - The sample level (SolverSpec): the coefficient solver of lines       *)
(*    90-142 evaluated frame by frame on exact rationals, with the frame   *)
(*    properties written by PlaneStats and read by the expressions.        *)
(***************************************************************************)
EXTENDS Integers, Sequences, FiniteSets, TLC

(***************************************************************************)
(* Sample values.  The working format is 32-bit float; its arithmetic is   *)
(* modelled on exact rationals extended with the IEEE specials, so that a  *)
(* division by zero is a value and not an omission.  A value is <<n, d>>:  *)
(* d > 0 is the rational n/d in lowest terms, <<1,0>> is +inf, <<-1,0>> is *)
(* -inf and <<0,0>> is nan.  Zero is +0.                                   *)
(***************************************************************************)
RECURSIVE Gcd(_, _)
Gcd(a, b) == IF b = 0 THEN a ELSE Gcd(b, a % b)

Abs(x) == IF x < 0 THEN -x ELSE x

Sgn(n) == IF n > 0 THEN 1 ELSE IF n < 0 THEN -1 ELSE 0

PosInf == <<1, 0>>
NegInf == <<-1, 0>>
NaN == <<0, 0>>

IsFinite(x) == x[2] # 0
IsNaN(x) == x = NaN

Norm(n, d) ==
    IF d = 0 THEN <<Sgn(n), 0>>
    ELSE LET g == Gcd(Abs(n), Abs(d))
             s == IF d < 0 THEN -1 ELSE 1
         IN  <<s * (n \div g), s * (d \div g)>>

Rat(n) == <<n, 1>>

RAdd(x, y) ==
    IF IsNaN(x) \/ IsNaN(y) THEN NaN
    ELSE IF ~IsFinite(x) THEN (IF ~IsFinite(y) /\ y # x THEN NaN ELSE x)
    ELSE IF ~IsFinite(y) THEN y
    ELSE LET g == Gcd(x[2], y[2])
         IN  Norm(x[1] * (y[2] \div g) + y[1] * (x[2] \div g), x[2] * (y[2] \div g))

RNeg(x) == <<-x[1], x[2]>>

RSub(x, y) == RAdd(x, RNeg(y))

RMul(x, y) ==
    IF IsNaN(x) \/ IsNaN(y) THEN NaN
    ELSE IF ~IsFinite(x) \/ ~IsFinite(y) THEN <<Sgn(x[1]) * Sgn(y[1]), 0>>
    ELSE LET g1 == Gcd(Abs(x[1]), y[2])
             g2 == Gcd(Abs(y[1]), x[2])
         IN  Norm((x[1] \div g1) * (y[1] \div g2), (x[2] \div g2) * (y[2] \div g1))

\* 1/x: 1/+0 = +inf, 1/inf = 0
RInv(x) ==
    IF IsNaN(x) THEN NaN
    ELSE IF ~IsFinite(x) THEN Rat(0)
    ELSE IF x[1] = 0 THEN PosInf
    ELSE Norm(x[2], x[1])

RDiv(x, y) == RMul(x, RInv(y))

RLeq(x, y) == x[1] * y[2] <= y[1] * x[2]

RIsZero(x) == IsFinite(x) /\ x[1] = 0

\* integer square root, by bisection on lo..hi
RECURSIVE ISqrtIn(_, _, _)
ISqrtIn(n, lo, hi) ==
    IF lo >= hi THEN lo
    ELSE LET mid == (lo + hi + 1) \div 2
         IN  IF mid * mid <= n THEN ISqrtIn(n, mid, hi) ELSE ISqrtIn(n, lo, mid - 1)

ISqrt(n) == ISqrtIn(n, 0, IF n < 40000 THEN n ELSE 40000)

\* sqrt of a non-negative rational whose numerator and denominator are squares
RSqrt(x) == IF ~IsFinite(x) THEN x ELSE Norm(ISqrt(x[1]), ISqrt(x[2]))

\* The exponential.  exp(0) = 1, exp(-inf) = 0, exp(+inf) = +inf are exact;
\* elsewhere exp is irrational and is replaced by a rational function with
\* the properties of exp the solver depends on: positive, strictly
\* increasing, exp(-t) = 1/exp(t).  In the 32-bit float working format exp
\* overflows to +inf above 88.7 and underflows to 0 below -103.9.
RExp(t) ==
    IF IsNaN(t) THEN NaN
    ELSE IF t = PosInf \/ (IsFinite(t) /\ RLeq(Rat(89), t)) THEN PosInf
    ELSE IF t = NegInf \/ (IsFinite(t) /\ RLeq(t, Rat(-104))) THEN Rat(0)
    ELSE IF t[1] >= 0 THEN RAdd(Rat(1), t)
    ELSE RInv(RSub(Rat(1), t))

\* 'x y * sqrt' on non-negative x, y: sqrt(x*y), evaluated without forming the
\* product (its denominator would leave the 32-bit integer range of TLC)
SqrtOfProduct(x, y) == IF x = y THEN x ELSE RMul(RSqrt(x), RSqrt(y))

(***************************************************************************)
(* Bounds of the sample-level model.                                       *)
(***************************************************************************)
NumPlanes == 2
NPix == 2
NFrames == 2
\* frames the caller has requested and not yet received
MaxRequests == 2

PlaneIdx == 0 .. (NumPlanes - 1)
Pix == 1 .. NPix
Frames == 0 .. (NFrames - 1)

Modes == {"ORIGINAL", "WEIGHTED", "GRADIENT"}

\* the literal 1e-06 / 1e-6 of the expressions
Tiny == <<1, 1000000>>

\* k millionths
Micro(k) == Norm(k, 1000000)

(***************************************************************************)
(* The collaborators, at the interface the function uses.                  *)
(***************************************************************************)
\* norm_expr(clips, expr, planes): the expression on the planes in `planes`,
\* the plane of the first clip elsewhere.  `computed` is the expression
\* evaluated at every sample.
NormExpr(first, planes, computed) ==
    [i \in PlaneIdx |-> IF i \in planes THEN computed[i] ELSE first[i]]

RECURSIVE SumTo(_, _)
SumTo(row, n) == IF n = 0 THEN Rat(0) ELSE RAdd(SumTo(row, n - 1), row[n])

RECURSIVE MinTo(_, _)
MinTo(row, n) ==
    IF n = 1 THEN row[1]
    ELSE LET m == MinTo(row, n - 1) IN IF RLeq(row[n], m) THEN row[n] ELSE m

\* std.PlaneStats(None, plane): the frame properties of the frame
PlaneStats(clip, plane) ==
    [PlaneStatsAverage |-> RDiv(SumTo(clip[plane], NPix), Rat(NPix)),
     PlaneStatsMin |-> MinTo(clip[plane], NPix)]

\* The blur (box_blur or gauss_blur, lines 70-78) is a local weighted mean
\* supplied by vsrgtools.  What the function relies on is that it is
\* restricted to `planes` and that the mean of equal samples is that sample.
\* A row of equal samples is therefore mapped to itself; for any other row the
\* kernel is left open between the narrowest one (tap = 0, the sample itself)
\* and one dominated by the sample at position tap.
IsConstRow(row) == \A px \in Pix : row[px] = row[1]

BlurRow(row, tap) ==
    IF IsConstRow(row) \/ tap = 0 THEN row ELSE [px \in Pix |-> row[tap]]

blur_filter(clip, planes, tap) ==
    [i \in PlaneIdx |-> IF i \in planes THEN BlurRow(clip[i], tap) ELSE clip[i]]

(***************************************************************************)
(* The coefficient solver, lines 90-142.  st is the record of the maps of  *)
(* lines 80-88 and 96-98 for one frame.                                    *)
(***************************************************************************)
\* line 91
a_original(st, planes, eps) ==
    NormExpr(st.cov_Ip, planes,
             [i \in PlaneIdx |-> [px \in Pix |-> RDiv(st.cov_Ip[i][px], RAdd(st.var_I[i][px], eps))]])

\* lines 100-103
WeightIn(st, mode, planes) ==
    IF mode = "WEIGHTED" THEN st.var_I_1
    ELSE NormExpr(st.var_I, planes,
                  [i \in PlaneIdx |-> [px \in Pix |-> SqrtOfProduct(st.var_I[i][px], st.var_I_1[i][px])]])

\* line 105
Denominator(weight_in, planes) ==
    NormExpr(weight_in, planes, [i \in PlaneIdx |-> [px \in Pix |-> RDiv(Rat(1), RAdd(weight_in[i][px], Tiny))]])

\* the plane argument of std.PlaneStats on lines 107 and 121
PlaneStatsPlane == 0

\* lines 110 and 113-114: 'x 1e-06 + y.PlaneStatsAverage *'
Weight(weight_in, props, planes) ==
    NormExpr(weight_in, planes,
             [i \in PlaneIdx |-> [px \in Pix |-> RMul(RAdd(weight_in[i][px], Tiny), props.PlaneStatsAverage)]])

\* line 119
a_weighted(st, weight, planes, eps) ==
    NormExpr(st.cov_Ip, planes,
             [i \in PlaneIdx |-> [px \in Pix |-> RDiv(st.cov_Ip[i][px],
                                 RAdd(st.var_I[i][px], RDiv(eps, weight[i][px])))]])

\* line 126: '-4 y.PlaneStatsMin y.PlaneStatsAverage 1e-6 - - /'
KDivisorAka(props) == RSub(props.PlaneStatsMin, RSub(props.PlaneStatsAverage, Tiny))

\* line 137: kk = -4 / (f.props.PlaneStatsMin - frameMean - 1e-6)
KDivisorEval(props) == RSub(RSub(props.PlaneStatsMin, props.PlaneStatsAverage), Tiny)

KDivisor(aka, props) == IF aka THEN KDivisorAka(props) ELSE KDivisorEval(props)

GradientK(aka, props) == RDiv(Rat(-4), KDivisor(aka, props))

\* 1 + exp(k * (y - alpha)), the divisor of the sigmoid
SigmoidDivisor(k, alpha, w) == RAdd(Rat(1), RExp(RMul(k, RSub(w, alpha))))

\* lines 126-127 and 136:
\* 'x eps 1 1 1 k y alpha - * exp + / - * z / + a eps z / + /'
GradientA(x, y, z, v, eps, k, alpha) ==
    RDiv(RAdd(x, RDiv(RMul(eps, RSub(Rat(1), RDiv(Rat(1), SigmoidDivisor(k, alpha, y)))), z)),
         RAdd(v, RDiv(eps, z)))

a_gradient(st, weight_in, weight, props, aka, planes, eps) ==
    NormExpr(st.cov_Ip, planes,
             [i \in PlaneIdx |-> [px \in Pix |-> GradientA(st.cov_Ip[i][px], weight_in[i][px], weight[i][px],
                                      st.var_I[i][px], eps,
                                      GradientK(aka, props), props.PlaneStatsAverage)]])

\* b without the guidance mean: mean_p - a
b_of_no_mean(st, a, planes) ==
    NormExpr(st.mean_p, planes, [i \in PlaneIdx |-> [px \in Pix |-> RSub(st.mean_p[i][px], a[i][px])]])

\* line 142
b_of(st, a, planes) ==
    NormExpr(st.mean_p, planes,
             [i \in PlaneIdx |-> [px \in Pix |-> RSub(st.mean_p[i][px], RMul(a[i][px], st.mean_I[i][px]))]])

\* lines 144-150 without resolution reduction
q_of(st, a, planes, tap) ==
    LET mean_a == blur_filter(a, planes, tap)
        mean_b == blur_filter(b_of(st, a, planes), planes, tap)
    IN  NormExpr(mean_a, planes,
                 [i \in PlaneIdx |-> [px \in Pix |-> RAdd(RMul(mean_a[i][px], st.g[i][px]), mean_b[i][px])]])


(***************************************************************************)
(* Frames of the sample-level model.  The statistics maps of a plane are   *)
(* the outputs of the blur collaborator; they are drawn from three kinds   *)
(* of plane:                                                               *)
(*   flat  a plane of constant samples, self-guided: zero variance         *)
(*   gap   self-guided, variance 0 at the first pixel and such that the    *)
(*         plane mean of the variance lies 1e-6 above its minimum          *)
(*   step  separate guidance, var_I and var_I_1 differ                     *)
(***************************************************************************)
PlaneKinds == {"flat", "gap", "step"}

FlatValue == <<1, 2>>

KindSample(kind, px) ==
    CASE kind = "flat" ->
            \* lines 80-88 and 96-98 on equal samples c, the blur returning c
            LET c == FlatValue
                mean == c
                corr == RMul(c, c)
                var == RSub(corr, RMul(mean, mean))
            IN  [g |-> c, p |-> c, mean_p |-> mean, mean_I |-> mean, var_I |-> var,
                 var_I_1 |-> var, cov_Ip |-> var]
      [] kind = "gap" ->
            LET v == IF px = 1 THEN Rat(0) ELSE Norm(NPix, (NPix - 1) * 1000000)
            IN  [g |-> Norm(px, 8), p |-> Norm(px, 8), mean_p |-> <<1, 4>>,
                 mean_I |-> <<1, 4>>, var_I |-> v, var_I_1 |-> v, cov_Ip |-> v]
      [] kind = "step" ->
            [g |-> Norm(px, 4), p |-> Norm(px + 1, 8), mean_p |-> <<1, 2>>,
             mean_I |-> <<1, 4>>,
             var_I |-> IF px % 2 = 1 THEN Micro(4) ELSE Micro(1),
             var_I_1 |-> IF px % 2 = 1 THEN Micro(1) ELSE Micro(4),
             cov_Ip |-> Micro(1)]

\* The maps of lines 80-88 and 96-98 for a frame whose plane i is of kind
\* kinds[i].  On a plane outside `planes` every blur and expression copies the
\* plane of its first clip, which leads back to p for mean_p and to g for the
\* other maps.
StatsOf(kinds, planes) ==
    LET S(i, px) == KindSample(kinds[i], px)
    IN  [g       |-> [i \in PlaneIdx |-> [px \in Pix |-> S(i, px).g]],
         p       |-> [i \in PlaneIdx |-> [px \in Pix |-> S(i, px).p]],
         mean_p  |-> [i \in PlaneIdx |-> [px \in Pix |->
                        IF i \in planes THEN S(i, px).mean_p ELSE S(i, px).p]],
         mean_I  |-> [i \in PlaneIdx |-> [px \in Pix |->
                        IF i \in planes THEN S(i, px).mean_I ELSE S(i, px).g]],
         var_I   |-> [i \in PlaneIdx |-> [px \in Pix |->
                        IF i \in planes THEN S(i, px).var_I ELSE S(i, px).g]],
         var_I_1 |-> [i \in PlaneIdx |-> [px \in Pix |->
                        IF i \in planes THEN S(i, px).var_I_1 ELSE S(i, px).g]],
         cov_Ip  |-> [i \in PlaneIdx |-> [px \in Pix |->
                        IF i \in planes THEN S(i, px).cov_Ip ELSE S(i, px).g]]]

\* plane 0 of one kind, the other planes of another
FrameOf(k0, k1) == [i \in PlaneIdx |-> IF i = 0 THEN k0 ELSE k1]

FrameKinds == {FrameOf("flat", "flat"), FrameOf("gap", "flat"),
               FrameOf("gap", "step"), FrameOf("step", "step")}

EpsValues == {Micro(1), Micro(4)}

ZeroMap == [i \in PlaneIdx |-> [px \in Pix |-> Rat(0)]]

NoProps == [set |-> FALSE, PlaneStatsAverage |-> Rat(0), PlaneStatsMin |-> Rat(0)]

Props(ps) == [set |-> TRUE, PlaneStatsAverage |-> ps.PlaneStatsAverage,
              PlaneStatsMin |-> ps.PlaneStatsMin]


(***************************************************************************)
(* The call level.  A clip is a record of width, height, number of planes, *)
(* sample format and, per plane, the content of the plane: the clip the    *)
(* plane was copied from (src), the samples at two probe positions (row)   *)
(* and whether it went through a resampler.  A plane computed by an        *)
(* expression or a blur has src = "derived": its samples are the subject   *)
(* of the sample level.                                                    *)
(***************************************************************************)
Derived == [src |-> "derived", row |-> <<>>, resampled |-> FALSE]

NoClip == [width |-> 0, height |-> 0, num_planes |-> 0, bits |-> 0, content |-> <<>>]

\* plane i of a clip (planes are numbered from 0)
PlaneOf(c, i) == c.content[i + 1]

MkClip(w, h, n, bits, content) ==
    [width |-> w, height |-> h, num_planes |-> n, bits |-> bits, content |-> content]

\* floor of n/d for d > 0
FloorDiv(n, d) == IF n >= 0 THEN n \div d ELSE -((-n + d - 1) \div d)

\* Python round(n/d), d > 0: to nearest, ties to even
PyRound(n, d) ==
    LET f == FloorDiv(n, d)
        rem2 == 2 * (n - f * d)
    IN  IF rem2 < d THEN f
        ELSE IF rem2 > d THEN f + 1
        ELSE IF f % 2 = 0 THEN f ELSE f + 1

\* vstools.cround(n/d), d > 0: to nearest, ties away from zero
cround(n, d) ==
    IF n >= 0 THEN FloorDiv(2 * n + d, 2 * d) ELSE -FloorDiv(2 * (-n) + d, 2 * d)

Max(x, y) == IF x >= y THEN x ELSE y

\* the offsets of the formula taken as 10 instead of 12
DefaultRadiusOfShifted(width, height, sw, sh) ==
    LET tw == 9 * sh * (width + 320 * sw)
        th == 16 * sw * (height + 180 * sh)
    IN  PyRound(Max(tw, th), 1440 * sw * sh)

\* lines 49-50: round(max((w - 1280) / 160 + 12, (h - 720) / 90 + 12)) where
\* w = width / sw and h = height / sh; both terms are taken over the common
\* denominator 1440 * sw * sh
DefaultRadiusOf(width, height, sw, sh) ==
    LET tw == 9 * sh * (width + 640 * sw)
        th == 16 * sw * (height + 360 * sh)
    IN  PyRound(Max(tw, th), 1440 * sw * sh)

\* lines 45-51: [round(rad), round(radc)][:num_planes]
DefaultRadius(c, sw, sh) ==
    SubSeq(<<DefaultRadiusOf(c.width, c.height, 1, 1),
             DefaultRadiusOf(c.width, c.height, sw, sh)>>,
           1, IF c.num_planes < 2 THEN c.num_planes ELSE 2)

\* vstools.normalize_seq(val, length): a scalar is repeated, a list is
\* extended with its last element and cut
normalize_seq(val, length) ==
    [k \in 1 .. length |-> IF k <= Len(val) THEN val[k] ELSE val[Len(val)]]

\* a check that compares the width and the format only
check_ref_clip_width(c, ref) ==
    ref = NoClip \/ (ref.num_planes = c.num_planes /\ ref.width = c.width)

\* line 53, vstools.check_ref_clip: a reference clip must have the format and
\* the resolution of the clip
check_ref_clip(c, ref) ==
    ref = NoClip \/ (ref.num_planes = c.num_planes /\ ref.width = c.width /\ ref.height = c.height)

\* full-range sample conversion between 8-bit integer and 32-bit float
SampleToFloat(v) == Norm(v[1], 255 * v[2])

SampleTo8(v) == Rat(cround(255 * v[1], v[2]))

\* vstools.depth(clip, bits), also expect_bits: every plane is converted
depth(c, bits) ==
    IF c.bits = bits THEN c
    ELSE [c EXCEPT !.bits = bits,
                   !.content = [k \in 1 .. c.num_planes |->
                       [c.content[k] EXCEPT !.row =
                           [j \in 1 .. Len(c.content[k].row) |->
                               IF bits = 32 THEN SampleToFloat(c.content[k].row[j])
                               ELSE SampleTo8(c.content[k].row[j])]]]]

\* Scaler.scale(clip, width, height): every plane is resampled
scale(c, w, h) ==
    [c EXCEPT !.width = w, !.height = h,
              !.content = [k \in 1 .. c.num_planes |->
                              [c.content[k] EXCEPT !.resampled = TRUE]]]

\* norm_expr(clips, expr, planes) and the blurs restricted to planes: the
\* planes in pl are computed, the others are the planes of the first clip
expr_planes(first, pl) ==
    [first EXCEPT !.content = [k \in 1 .. first.num_planes |->
                                  IF (k - 1) \in pl THEN Derived ELSE first.content[k]]]

(***************************************************************************)
(* State.                                                                  *)
(***************************************************************************)
VARIABLES
    mode,           \* GuidedFilterMode of the call
    aka,            \* aka_expr_available
    planes,         \* normalize_planes(clip, planes)
    eps,            \* the regulation, one value for every plane
    kinds,          \* frame -> plane -> kind of plane
    have,           \* frame -> the maps and properties produced so far
    weight_in_m,    \* frame -> weight_in
    denomProps,     \* frame -> properties of denominator after line 107
    wProps,         \* frame -> properties of weight_in after line 121
    weight_m,       \* frame -> weight
    usedDenom,      \* frame -> the properties the weight expression read
    usedW,          \* frame -> the properties the gradient expression read
    a_m,            \* frame -> a
    q_m,            \* frame -> q
    clip,           \* the input clip
    guidance,       \* the guidance clip, NoClip when absent
    sub,            \* <<1 << subsampling_w, 1 << subsampling_h>> of the format
    radius_arg,     \* the radius argument as passed: <<>> when absent, <<k>> for k
    radius,         \* the local name radius: the argument, the list after line 51
    regulation,     \* <<>> when absent, the list after line 43
    range_full,     \* range_in.is_full
    down_ratio,
    use_gauss,
    pc,             \* the statement the call has reached
    outcome,        \* "none", "ok" or the exception raised
    result,         \* the clip returned
    ops,            \* the collaborator calls made so far
    r,              \* line 58
    loc             \* the clips bound to the local names of the function

svars == <<eps, kinds, have, weight_in_m, denomProps, wProps,
           weight_m, usedDenom, usedW, a_m, q_m>>

cvars == <<clip, guidance, sub, radius_arg, radius, regulation, range_full, down_ratio, use_gauss,
           pc, outcome, result, ops, r, loc>>

vars == <<mode, aka, planes, svars, cvars>>

NoLocals == [p |-> NoClip, g |-> NoClip, guidance_clip |-> NoClip, mean_p |-> NoClip,
             mean_I |-> NoClip, var_I |-> NoClip, cov_Ip |-> NoClip, var_I_1 |-> NoClip,
             weight_in |-> NoClip, a |-> NoClip]

\* the call-level variables while the sample level runs
CallIdle ==
    /\ clip = NoClip /\ guidance = NoClip /\ sub = <<1, 1>>
    /\ radius_arg = <<>> /\ radius = <<>> /\ regulation = <<>> /\ range_full = FALSE
    /\ down_ratio = 0 /\ use_gauss = FALSE
    /\ pc = "idle" /\ outcome = "none" /\ result = NoClip /\ ops = {} /\ r = <<>>
    /\ loc = NoLocals

St(n) == StatsOf(kinds[n], planes)

SolverInit ==
    /\ mode \in Modes
    /\ aka \in BOOLEAN
    /\ planes = PlaneIdx
    /\ eps \in EpsValues
    /\ kinds \in [Frames -> FrameKinds]
    /\ have = [n \in Frames |-> {}]
    /\ weight_in_m = [n \in Frames |-> ZeroMap]
    /\ denomProps = [n \in Frames |-> NoProps]
    /\ wProps = [n \in Frames |-> NoProps]
    /\ weight_m = [n \in Frames |-> ZeroMap]
    /\ usedDenom = [n \in Frames |-> NoProps]
    /\ usedW = [n \in Frames |-> NoProps]
    /\ a_m = [n \in Frames |-> ZeroMap]
    /\ q_m = [n \in Frames |-> ZeroMap]
    /\ CallIdle

\* the properties of the frame before, where there is one
PropFramePrevious(n) == IF n = 0 THEN 0 ELSE n - 1

\* The frame of the property clip that the evaluation of frame n reads: an
\* expression reads y.Prop from frame n of clip y (lines 110, 126), and
\* FrameEval hands the callback frame n of prop_src (lines 115, 140).
PropFrame(n) == n

\* a frame is evaluated on request; the caller keeps at most MaxRequests open
InFlight == {m \in Frames : have[m] # {} /\ "q" \notin have[m]}

CanStart(n) == have[n] # {} \/ Cardinality(InFlight) < MaxRequests

\* line 91, mode ORIGINAL: a needs no reduction
SolveOriginal(n) ==
    /\ mode = "ORIGINAL"
    /\ "a" \notin have[n]
    /\ CanStart(n)
    /\ a_m' = [a_m EXCEPT ![n] = a_original(St(n), planes, eps)]
    /\ have' = [have EXCEPT ![n] = @ \cup {"a"}]
    /\ UNCHANGED cvars
    /\ UNCHANGED <<mode, aka, planes, eps, kinds, weight_in_m, denomProps, wProps,
                   weight_m, usedDenom, usedW, q_m>>

\* lines 100-107: weight_in, denominator and the reduction of denominator
ReduceDenominator(n) ==
    /\ mode # "ORIGINAL"
    /\ "denomProps" \notin have[n]
    /\ CanStart(n)
    /\ LET w == WeightIn(St(n), mode, planes)
       IN  /\ weight_in_m' = [weight_in_m EXCEPT ![n] = w]
           /\ denomProps' = [denomProps EXCEPT ![n] =
                               Props(PlaneStats(Denominator(w, planes), PlaneStatsPlane))]
    /\ have' = [have EXCEPT ![n] = @ \cup {"weight_in", "denomProps"}]
    /\ UNCHANGED cvars
    /\ UNCHANGED <<mode, aka, planes, eps, kinds, wProps, weight_m, usedDenom, usedW,
                   a_m, q_m>>

\* lines 109-116: the weight of frame n, from weight_in and the properties of
\* the denominator frame the evaluator hands over
EvalWeight(n) ==
    /\ mode # "ORIGINAL"
    /\ "weight" \notin have[n]
    /\ "weight_in" \in have[n]
    /\ "denomProps" \in have[PropFrame(n)]
    /\ LET f == denomProps[PropFrame(n)]
       IN  /\ usedDenom' = [usedDenom EXCEPT ![n] = f]
           /\ weight_m' = [weight_m EXCEPT ![n] = Weight(weight_in_m[n], f, planes)]
    /\ have' = [have EXCEPT ![n] = @ \cup {"weight"}]
    /\ UNCHANGED cvars
    /\ UNCHANGED <<mode, aka, planes, eps, kinds, weight_in_m, denomProps, wProps,
                   usedW, a_m, q_m>>

\* line 119, mode WEIGHTED
SolveWeighted(n) ==
    /\ mode = "WEIGHTED"
    /\ "a" \notin have[n]
    /\ "weight" \in have[n]
    /\ a_m' = [a_m EXCEPT ![n] = a_weighted(St(n), weight_m[n], planes, eps)]
    /\ have' = [have EXCEPT ![n] = @ \cup {"a"}]
    /\ UNCHANGED cvars
    /\ UNCHANGED <<mode, aka, planes, eps, kinds, weight_in_m, denomProps, wProps,
                   weight_m, usedDenom, usedW, q_m>>

\* line 121, mode GRADIENT: the reduction of weight_in
ReduceWeightIn(n) ==
    /\ mode = "GRADIENT"
    /\ "wProps" \notin have[n]
    /\ "weight_in" \in have[n]
    /\ wProps' = [wProps EXCEPT ![n] = Props(PlaneStats(weight_in_m[n], PlaneStatsPlane))]
    /\ have' = [have EXCEPT ![n] = @ \cup {"wProps"}]
    /\ UNCHANGED cvars
    /\ UNCHANGED <<mode, aka, planes, eps, kinds, weight_in_m, denomProps, weight_m,
                   usedDenom, usedW, a_m, q_m>>

\* lines 123-140, mode GRADIENT: a of frame n on either evaluator path
SolveGradient(n) ==
    /\ mode = "GRADIENT"
    /\ "a" \notin have[n]
    /\ "weight" \in have[n]
    /\ "wProps" \in have[PropFrame(n)]
    /\ LET f == wProps[PropFrame(n)]
       IN  /\ usedW' = [usedW EXCEPT ![n] = f]
           /\ a_m' = [a_m EXCEPT ![n] =
                        a_gradient(St(n), weight_in_m[n], weight_m[n], f, aka, planes, eps)]
    /\ have' = [have EXCEPT ![n] = @ \cup {"a"}]
    /\ UNCHANGED cvars
    /\ UNCHANGED <<mode, aka, planes, eps, kinds, weight_in_m, denomProps, wProps,
                   weight_m, usedDenom, q_m>>

\* lines 142-150
Compose(n) ==
    /\ "a" \in have[n]
    /\ "q" \notin have[n]
    /\ \E tap \in {0, 1} : q_m' = [q_m EXCEPT ![n] = q_of(St(n), a_m[n], planes, tap)]
    /\ have' = [have EXCEPT ![n] = @ \cup {"q"}]
    /\ UNCHANGED cvars
    /\ UNCHANGED <<mode, aka, planes, eps, kinds, weight_in_m, denomProps, wProps,
                   weight_m, usedDenom, usedW, a_m>>

SolverNext ==
    \E n \in Frames :
        \/ SolveOriginal(n)
        \/ ReduceDenominator(n)
        \/ EvalWeight(n)
        \/ SolveWeighted(n)
        \/ ReduceWeightIn(n)
        \/ SolveGradient(n)
        \/ Compose(n)

SolverSpec == SolverInit /\ [][SolverNext]_vars


(***************************************************************************)
(* Properties of the sample-level model.                                   *)
(***************************************************************************)
DenomStatsOf(n) ==
    Props(PlaneStats(Denominator(WeightIn(St(n), mode, planes), planes), PlaneStatsPlane))

WeightInStatsOf(n) == Props(PlaneStats(WeightIn(St(n), mode, planes), PlaneStatsPlane))

\* C4: the weight of frame n is evaluated only with the reduction of the
\* denominator of frame n computed, and reads exactly that reduction; in
\* GRADIENT a of frame n is evaluated only with the reduction of weight_in of
\* frame n computed, and reads exactly that reduction.
C4_Barrier ==
    \A n \in Frames :
        /\ "weight" \in have[n] =>
               /\ "denomProps" \in have[n]
               /\ usedDenom[n].set
               /\ usedDenom[n] = DenomStatsOf(n)
        /\ (mode = "GRADIENT" /\ "a" \in have[n]) =>
               /\ "wProps" \in have[n]
               /\ usedW[n].set
               /\ usedW[n] = WeightInStatsOf(n)

\* a frame solved in GRADIENT while another frame with other reductions has
\* them computed already
C4_Witness ==
    \E n, m \in Frames :
        /\ mode = "GRADIENT" /\ "a" \in have[n]
        /\ "denomProps" \in have[m] /\ "wProps" \in have[m]
        /\ denomProps[m] # denomProps[n] /\ wProps[m] # wProps[n]

\* C5: on a plane of equal samples c, self-guided, every output sample is c,
\* in every mode and on both evaluator paths.
C5_FlatReproduced ==
    \A n \in Frames : \A i \in planes :
        (kinds[n][i] = "flat" /\ "q" \in have[n]) =>
            \A px \in Pix : q_m[n][i][px] = FlatValue

\* a flat plane composed in GRADIENT with a slope that is not zero
C5_Witness ==
    \E n \in Frames : \E i \in planes :
        /\ kinds[n][i] = "flat" /\ "q" \in have[n] /\ mode = "GRADIENT"
        /\ ~RIsZero(a_m[n][i][1])

\* the divisors of the divisions evaluated for frame n so far
Divisors(n) ==
    LET st == St(n)
    IN  (IF mode = "ORIGINAL" /\ "a" \in have[n]
         THEN {RAdd(st.var_I[i][px], eps) : i \in planes, px \in Pix} ELSE {})
        \cup (IF "denomProps" \in have[n]
              THEN {RAdd(weight_in_m[n][i][px], Tiny) : i \in planes, px \in Pix} ELSE {})
        \cup (IF mode # "ORIGINAL" /\ "a" \in have[n]
              THEN {weight_m[n][i][px] : i \in planes, px \in Pix}
                   \cup {RAdd(st.var_I[i][px], RDiv(eps, weight_m[n][i][px])) :
                           i \in planes, px \in Pix}
              ELSE {})
        \cup (IF mode = "GRADIENT" /\ "a" \in have[n]
              THEN {KDivisor(aka, usedW[n])}
                   \cup {SigmoidDivisor(GradientK(aka, usedW[n]),
                                        usedW[n].PlaneStatsAverage, weight_in_m[n][i][px]) :
                           i \in planes, px \in Pix}
              ELSE {})

\* C8: with variances >= 0 and eps > 0 no division of the solver has a zero
\* divisor, on either evaluator path.
C8_NoZeroDivisor == \A n \in Frames : \A d \in Divisors(n) : ~RIsZero(d)

\* C9: for the same maps and the same reduced scalars the expression path
\* and the FrameEval path compute the same a in GRADIENT.
C9_PathsAgree ==
    \A n \in Frames :
        (mode = "GRADIENT" /\ "a" \in have[n]) =>
            a_gradient(St(n), weight_in_m[n], weight_m[n], usedW[n], TRUE, planes, eps)
              = a_gradient(St(n), weight_in_m[n], weight_m[n], usedW[n], FALSE, planes, eps)

\* C10: two frames that agree on plane i have the same a on plane i,
\* whatever their other planes are.
C10_PlaneIndependent ==
    \A n, m \in Frames : \A i \in planes :
        ("a" \in have[n] /\ "a" \in have[m] /\ kinds[n][i] = kinds[m][i]) =>
            a_m[n][i] = a_m[m][i]



(***************************************************************************)
(* The call: guided_filter(clip, guidance, radius, ..., down_ratio).       *)
(***************************************************************************)
MaxRadius == 2
MaxDownRatio == 2

Dims == {<<640, 360>>, <<1280, 720>>, <<1360, 720>>, <<1920, 1080>>}

\* the probe samples of plane i of an input clip, as stored at `bits`
InputRow(bits, i, base) ==
    IF bits = 8 THEN <<Rat(base + 16 * i), Rat(128)>>
    ELSE <<Norm(base + 16 * i, 255), <<1, 2>>>>

InputClip(src, w, h, n, bits, base) ==
    MkClip(w, h, n, bits,
           [k \in 1 .. n |->
               [src |-> src, row |-> InputRow(bits, k - 1, base), resampled |-> FALSE]])

\* absent, matching, or differing in width, height or number of planes
GuidanceChoices(c) ==
    {NoClip,
     InputClip("guidance", c.width, c.height, c.num_planes, c.bits, 200),
     InputClip("guidance", c.width + 2, c.height, c.num_planes, c.bits, 200),
     InputClip("guidance", c.width, c.height + 2, c.num_planes, c.bits, 200),
     InputClip("guidance", c.width, c.height, 1, c.bits, 200)}

SampleIdle ==
    /\ eps = Tiny
    /\ kinds = [n \in Frames |-> FrameOf("flat", "flat")]
    /\ have = [n \in Frames |-> {}]
    /\ weight_in_m = [n \in Frames |-> ZeroMap]
    /\ denomProps = [n \in Frames |-> NoProps]
    /\ wProps = [n \in Frames |-> NoProps]
    /\ weight_m = [n \in Frames |-> ZeroMap]
    /\ usedDenom = [n \in Frames |-> NoProps]
    /\ usedW = [n \in Frames |-> NoProps]
    /\ a_m = [n \in Frames |-> ZeroMap]
    /\ q_m = [n \in Frames |-> ZeroMap]

Init ==
    /\ mode \in Modes
    /\ aka \in BOOLEAN
    /\ planes \in (SUBSET PlaneIdx) \ {{}}
    /\ \E d \in Dims, bits \in {8, 32} :
           clip = InputClip("clip", d[1], d[2], NumPlanes, bits, 16)
    /\ guidance \in GuidanceChoices(clip)
    /\ sub \in {<<1, 1>>, <<2, 2>>}
    /\ radius_arg \in {<<>>} \cup {<<k>> : k \in 1 .. MaxRadius}
    /\ radius = radius_arg
    /\ regulation \in {<<>>, <<Tiny>>}
    /\ range_full \in BOOLEAN
    /\ down_ratio \in {0} \cup (2 .. MaxDownRatio)
    /\ use_gauss \in BOOLEAN
    /\ pc = "normalize" /\ outcome = "none" /\ result = NoClip /\ ops = {} /\ r = <<>>
    /\ loc = NoLocals
    /\ SampleIdle

\* a Python list never equals an int: `r == 1` on line 93 compares the list
\* of line 58 with 1
PyListEqInt(lst, k) == FALSE

\* lines 27-51: defaults of regulation and radius
Normalize ==
    /\ pc = "normalize"
    /\ regulation' =
           IF regulation = <<>>
           THEN LET thr == normalize_seq(<<<<1, 3>>>>, clip.num_planes)
                    size == normalize_seq(IF range_full THEN <<220, 225, 225>> ELSE <<256>>,
                                          clip.num_planes)
                IN  [k \in 1 .. clip.num_planes |-> RDiv(thr[k], Rat(size[k]))]
           ELSE regulation
    /\ radius' = IF radius = <<>> THEN DefaultRadius(clip, sub[1], sub[2]) ELSE radius
    /\ pc' = "check"
    /\ UNCHANGED <<mode, aka, planes, svars, clip, guidance, sub, radius_arg, range_full,
                   down_ratio, use_gauss, outcome, result, ops, r, loc>>

\* line 53
CheckRef ==
    /\ pc = "check"
    /\ IF check_ref_clip(clip, guidance)
       THEN pc' = "reduce" /\ outcome' = outcome
       ELSE pc' = "done" /\ outcome' = "ConfigurationError"
    /\ UNCHANGED <<mode, aka, planes, svars, clip, guidance, sub, radius_arg, radius, regulation,
                   range_full, down_ratio, use_gauss, result, ops, r, loc>>

\* lines 55-68: promotion to float, per-plane parameters, resolution
\* reduction.  Line 68 divides the list r by down_ratio, which raises
\* TypeError.
Reduce ==
    /\ pc = "reduce"
    /\ LET p32 == depth(clip, 32)
           g32 == IF guidance # NoClip THEN depth(guidance, 32) ELSE p32
           down_w == cround(clip.width, IF down_ratio = 0 THEN 1 ELSE down_ratio)
           down_h == cround(clip.height, IF down_ratio = 0 THEN 1 ELSE down_ratio)
           pd == IF down_ratio # 0 THEN scale(p32, down_w, down_h) ELSE p32
           gd == IF down_ratio = 0 THEN g32
                 ELSE IF guidance # NoClip THEN scale(g32, down_w, down_h) ELSE pd
       IN  /\ loc' = [loc EXCEPT !.p = pd, !.g = gd, !.guidance_clip = g32]
           /\ ops' = ops \cup {"depth"} \cup (IF down_ratio # 0 THEN {"scale"} ELSE {})
    /\ r' = normalize_seq(radius, clip.num_planes)
    /\ regulation' = normalize_seq(regulation, clip.num_planes)
    /\ IF down_ratio # 0
       THEN pc' = "done" /\ outcome' = "TypeError"
       ELSE pc' = "statistics" /\ outcome' = outcome
    /\ UNCHANGED <<mode, aka, planes, svars, clip, guidance, sub, radius_arg, radius, range_full,
                   down_ratio, use_gauss, result>>

\* lines 70-88
Statistics ==
    /\ pc = "statistics"
    /\ LET guided == guidance # NoClip
           mean_p == expr_planes(loc.p, planes)
           mean_I == IF guided THEN expr_planes(loc.g, planes) ELSE mean_p
           I_square == expr_planes(loc.g, planes)
           corr_I == expr_planes(I_square, planes)
           corr_Ip == IF guided THEN expr_planes(expr_planes(loc.g, planes), planes)
                      ELSE corr_I
           var_I == expr_planes(corr_I, planes)
           cov_Ip == IF guided THEN expr_planes(corr_Ip, planes) ELSE var_I
       IN  loc' = [loc EXCEPT !.mean_p = mean_p, !.mean_I = mean_I, !.var_I = var_I,
                              !.cov_Ip = cov_Ip]
    /\ ops' = ops \cup {"blur_filter", "norm_expr"}
    /\ pc' = "solve"
    /\ UNCHANGED <<mode, aka, planes, svars, clip, guidance, sub, radius_arg, radius, regulation,
                   range_full, down_ratio, use_gauss, outcome, result, r>>

\* lines 90-140
Solve ==
    /\ pc = "solve"
    /\ IF mode = "ORIGINAL"
       THEN /\ loc' = [loc EXCEPT !.a = expr_planes(loc.cov_Ip, planes)]
            /\ ops' = ops
       ELSE LET skip == PyListEqInt(r, 1)
                \* lines 96-98: var_I_1 from corr_I_1 = blur_filter_corr(I_square)
                var_I_1 == IF skip THEN loc.var_I
                           ELSE expr_planes(expr_planes(expr_planes(loc.g, planes), planes),
                                            planes)
                weight_in == IF mode = "WEIGHTED" THEN var_I_1
                             ELSE expr_planes(loc.var_I, planes)
            IN  /\ loc' = [loc EXCEPT !.var_I_1 = var_I_1, !.weight_in = weight_in,
                                      !.a = expr_planes(loc.cov_Ip, planes)]
                /\ ops' = ops \cup {"PlaneStats"}
                              \cup (IF skip THEN {} ELSE {"blur_filter_corr"})
                              \cup (IF aka THEN {} ELSE {"FrameEval"})
    /\ pc' = "compose"
    /\ UNCHANGED <<mode, aka, planes, svars, clip, guidance, sub, radius_arg, radius, regulation,
                   range_full, down_ratio, use_gauss, outcome, result, r>>

\* lines 142-152
ComposeCall ==
    /\ pc = "compose"
    /\ LET b == expr_planes(loc.mean_p, planes)
           mean_a == expr_planes(loc.a, planes)
           mean_b == expr_planes(b, planes)
           up_a == IF down_ratio # 0 THEN scale(mean_a, clip.width, clip.height) ELSE mean_a
           q == expr_planes(up_a, planes)
       IN  result' = depth(q, clip.bits)
    /\ ops' = ops \cup (IF down_ratio # 0 THEN {"scale"} ELSE {})
    /\ outcome' = "ok"
    /\ pc' = "done"
    /\ UNCHANGED <<mode, aka, planes, svars, clip, guidance, sub, radius_arg, radius, regulation,
                   range_full, down_ratio, use_gauss, r, loc>>

Next == Normalize \/ CheckRef \/ Reduce \/ Statistics \/ Solve \/ ComposeCall

Spec == Init /\ [][Next]_vars


(***************************************************************************)
(* Properties of the call.                                                 *)
(***************************************************************************)
Returned == pc = "done" /\ outcome = "ok"

\* C1: every plane outside `planes` of the returned clip has the samples of
\* that plane of the input clip, and comes from the input clip.
C1_Passthrough ==
    Returned => \A i \in PlaneIdx \ planes : PlaneOf(result, i) = PlaneOf(clip, i)

\* C2: for down_ratio 0 or >= 2 the call returns a clip with the width, the
\* height and the number of planes of the input.
C2_Dimensions ==
    (pc = "done" /\ check_ref_clip(clip, guidance)) =>
        /\ outcome = "ok"
        /\ result.width = clip.width
        /\ result.height = clip.height
        /\ result.num_planes = clip.num_planes

\* C3: the corrective pass (blur_filter_corr) runs if and only if the mode
\* is not ORIGINAL and the configured radius is not 1.
C3_CorrectivePass ==
    Returned => (("blur_filter_corr" \in ops) <=> (mode # "ORIGINAL" /\ radius_arg # <<1>>))

DefaultsComputed == pc # "normalize" /\ radius_arg = <<>>

\* C6 as stated: the default radius of every plane is at least 12.
C6_Floor12 == DefaultsComputed => \A k \in 1 .. Len(radius) : radius[k] >= 12

\* the bounds of a default radius computed from width w / sw and height h / sh
RadiusBounds(rad, w, h, sw, sh) ==
    /\ rad >= 4
    /\ (w >= 1280 * sw \/ h >= 720 * sh) => rad >= 12
    /\ (w <= 1280 * sw /\ h <= 720 * sh) => rad <= 12
    /\ (w = 1280 * sw /\ h = 720 * sh) => rad = 12
    /\ \A d \in Dims :
          /\ d[1] >= w => DefaultRadiusOf(d[1], h, sw, sh) >= rad
          /\ d[2] >= h => DefaultRadiusOf(w, d[2], sw, sh) >= rad

\* C6, amended: the default radius is at least 4, at most 12 up to 1280x720
\* (12 exactly there), at least 12 from width 1280 or height 720 on, and
\* non-decreasing in width and in height; for luma and, on the subsampled
\* width and height, for chroma.
C6_RadiusBounds ==
    DefaultsComputed =>
        /\ RadiusBounds(radius[1], clip.width, clip.height, 1, 1)
        /\ Len(radius) > 1 => RadiusBounds(radius[2], clip.width, clip.height, sub[1], sub[2])

\* a default radius below 12, and one above
C6_Witness ==
    /\ DefaultsComputed /\ clip.width < 1280 /\ radius[1] < 12
    /\ Len(radius) > 1 /\ sub[1] > 1

Mismatch ==
    /\ guidance # NoClip
    /\ \/ guidance.width # clip.width
       \/ guidance.height # clip.height
       \/ guidance.num_planes # clip.num_planes

\* C7: a guidance clip that differs in width, height or number of planes
\* ends the call with the configuration error before any clip is built, and
\* nothing is returned; without such a clip the error is never raised.
C7_Rejected ==
    /\ Mismatch => /\ pc \in {"normalize", "check", "done"}
                   /\ ops = {} /\ result = NoClip /\ loc = NoLocals
                   /\ pc = "done" => outcome = "ConfigurationError"
    /\ ~Mismatch => outcome # "ConfigurationError"

\* the call ended by the error for a guidance clip of another height
C7_Witness ==
    /\ pc = "done" /\ outcome = "ConfigurationError"
    /\ guidance # NoClip /\ guidance.height # clip.height /\ guidance.width = clip.width


====
